---- MODULE Spec2Model ----
(***************************************************************************)
(* A model of package mockery (src/pkg/mockery/mockery.go, util.go) of     *)
(* http-mockery: the MockHandler with its configuration, and its public    *)
(* operations ValidateConfig, MatchEndpoint, RenderTemplateResponse and    *)
(* ServeHTTP (with proxyHandler, errorHandler, logRequestAndRespond and    *)
(* censorVariables).                                                       *)
(*                                                                         *)
(* Go strings whose bytes the code inspects (uri, type, method, variable   *)
(* name, values, header names, template text, bodies) are sequences of     *)
(* one-character strings: "/a" is <<"/", "a">> and "" is <<>>.  Strings    *)
(* that are only compared with "" or used as a lookup key (template path,  *)
(* env_var name, proxy_pass) are TLA+ strings.                             *)
(***************************************************************************)
EXTENDS Integers, Sequences, FiniteSets, TLC

(***************************************************************************)
(* strings.ToUpper / strings.ToLower on ASCII text                         *)
(***************************************************************************)
LowerLetters ==
    <<"a","b","c","d","e","f","g","h","i","j","k","l","m",
      "n","o","p","q","r","s","t","u","v","w","x","y","z">>

UpperLetters ==
    <<"A","B","C","D","E","F","G","H","I","J","K","L","M",
      "N","O","P","Q","R","S","T","U","V","W","X","Y","Z">>

UpperChar(c) ==
    IF \E i \in DOMAIN LowerLetters : LowerLetters[i] = c
    THEN UpperLetters[CHOOSE i \in DOMAIN LowerLetters : LowerLetters[i] = c]
    ELSE c

LowerChar(c) ==
    IF \E i \in DOMAIN UpperLetters : UpperLetters[i] = c
    THEN LowerLetters[CHOOSE i \in DOMAIN UpperLetters : UpperLetters[i] = c]
    ELSE c

ToUpper(s) == [i \in 1..Len(s) |-> UpperChar(s[i])]

ToLower(s) == [i \in 1..Len(s) |-> LowerChar(s[i])]

\* s[from..] as a sequence (empty when from is past the end)
Suffix(s, from) == IF from > Len(s) THEN <<>> ELSE SubSeq(s, from, Len(s))

\* the least position p >= from with s[p] = c, or 0 (bytes.Index of a 1-byte tag)
IndexFrom(s, c, from) ==
    IF \E p \in from..Len(s) : s[p] = c
    THEN CHOOSE p \in from..Len(s) : s[p] = c /\ \A q \in from..(p-1) : s[q] # c
    ELSE 0

(***************************************************************************)
(* regexp.MatchString(pattern, s): the pattern is compiled (RE2 syntax,    *)
(* Perl flags) and searched for anywhere in s.  The model covers patterns  *)
(* built of literal characters, ".", "^", "$" and the repetitions "*",     *)
(* "+", "?" (each optionally followed by the non-greedy "?"); URIs of the  *)
(* model hold no other metacharacter.  A pattern that does not compile     *)
(* (a repetition without an operand, or stacked on another repetition)     *)
(* makes MatchString return (false, err).                                  *)
(***************************************************************************)
RegexRepeats == {"*", "+", "?"}

RegexAtom(c) ==
    [kind |-> CASE c = "." -> "any"
                [] c = "^" -> "bol"
                [] c = "$" -> "eol"
                [] OTHER   -> "char",
     c |-> c, rep |-> ""]

RECURSIVE RegexCompileFrom(_, _, _, _)
RegexCompileFrom(p, i, atoms, lastRepeat) ==
    IF i > Len(p) THEN [ok |-> TRUE, atoms |-> atoms]
    ELSE IF p[i] \in RegexRepeats
    THEN IF atoms = <<>> \/ lastRepeat
         THEN [ok |-> FALSE, atoms |-> <<>>]
         ELSE LET n == Len(atoms)
                  nonGreedy == i + 1 <= Len(p) /\ p[i + 1] = "?"
              IN RegexCompileFrom(p, IF nonGreedy THEN i + 2 ELSE i + 1,
                                  [atoms EXCEPT ![n].rep = p[i]], TRUE)
    ELSE RegexCompileFrom(p, i + 1, Append(atoms, RegexAtom(p[i])), FALSE)

RegexCompile(p) == RegexCompileFrom(p, 1, <<>>, FALSE)

\* whether atom a accepts the character s[pos]
RegexStep(a, s, pos) ==
    /\ pos <= Len(s)
    /\ a.kind = "any" \/ (a.kind = "char" /\ a.c = s[pos])

\* whether the empty-width atom a holds at pos
RegexAssert(a, s, pos) ==
    \/ a.kind = "bol" /\ pos = 1
    \/ a.kind = "eol" /\ pos = Len(s) + 1

RECURSIVE RegexMatchHere(_, _, _, _)
RegexMatchHere(atoms, i, s, pos) ==
    IF i > Len(atoms) THEN TRUE
    ELSE LET a == atoms[i] IN
         IF a.kind \in {"bol", "eol"}
         THEN /\ a.rep \in {"*", "?"} \/ RegexAssert(a, s, pos)
              /\ RegexMatchHere(atoms, i + 1, s, pos)
         ELSE CASE a.rep = ""  -> /\ RegexStep(a, s, pos)
                                  /\ RegexMatchHere(atoms, i + 1, s, pos + 1)
                [] a.rep = "?" -> \/ RegexMatchHere(atoms, i + 1, s, pos)
                                  \/ /\ RegexStep(a, s, pos)
                                     /\ RegexMatchHere(atoms, i + 1, s, pos + 1)
                [] a.rep = "*" -> \/ RegexMatchHere(atoms, i + 1, s, pos)
                                  \/ /\ RegexStep(a, s, pos)
                                     /\ RegexMatchHere(atoms, i, s, pos + 1)
                [] a.rep = "+" -> /\ RegexStep(a, s, pos)
                                  /\ \/ RegexMatchHere(atoms, i + 1, s, pos + 1)
                                     \/ RegexMatchHere(atoms, i, s, pos + 1)

\* match, _ := regexp.MatchString(pattern, s): false on a compile error
MatchString(pattern, s) ==
    LET re == RegexCompile(pattern)
    IN /\ re.ok
       /\ \E pos \in 1..(Len(s) + 1) : RegexMatchHere(re.atoms, 1, s, pos)

(***************************************************************************)
(* IsJSON(str): json.Unmarshal into a json.RawMessage succeeds, i.e. str   *)
(* is one JSON value between optional white space.  The texts of the model *)
(* hold digits, the letters of "item" and "secret", upper-case letters and *)
(* the characters { } [ ] : , " < > / * and space and newline (no          *)
(* backslash, sign, point or exponent, and not the letters to spell true,  *)
(* false or null); on such text encoding/json accepts exactly: strings     *)
(* (any characters but the quote between two quotes), numbers (digits      *)
(* without a leading zero, or "0"), and objects and arrays of values.  JsonEnd(s, i) is the position after the value    *)
(* that starts at i, or 0 when none does.                                  *)
(***************************************************************************)
JsonDigits == {"0", "1", "2", "3", "4", "5", "6", "7", "8", "9"}

RECURSIVE JsonSkipWs(_, _)
JsonSkipWs(s, i) == IF i <= Len(s) /\ s[i] = " " THEN JsonSkipWs(s, i + 1) ELSE i

RECURSIVE JsonDigitsEnd(_, _)
JsonDigitsEnd(s, i) ==
    IF i <= Len(s) /\ s[i] \in JsonDigits THEN JsonDigitsEnd(s, i + 1) ELSE i

\* s[i] is the opening quote; the position after the closing quote, or 0
JsonStringEnd(s, i) ==
    LET q == IndexFrom(s, "\"", i + 1) IN IF q = 0 THEN 0 ELSE q + 1

RECURSIVE JsonEnd(_, _)
RECURSIVE JsonMembersEnd(_, _)
RECURSIVE JsonElementsEnd(_, _)
\* after "{" or ",": `"key" : value` then "," or "}"
JsonMembersEnd(s, i0) ==
    LET i == JsonSkipWs(s, i0) IN
    IF i > Len(s) \/ s[i] # "\"" THEN 0
    ELSE LET k == JsonStringEnd(s, i) IN
         IF k = 0 THEN 0
         ELSE LET c == JsonSkipWs(s, k) IN
              IF c > Len(s) \/ s[c] # ":" THEN 0
              ELSE LET v == JsonEnd(s, JsonSkipWs(s, c + 1)) IN
                   IF v = 0 THEN 0
                   ELSE LET e == JsonSkipWs(s, v) IN
                        IF e > Len(s) THEN 0
                        ELSE IF s[e] = "}" THEN e + 1
                        ELSE IF s[e] = "," THEN JsonMembersEnd(s, e + 1)
                        ELSE 0

\* after "[" or ",": value then "," or "]"
JsonElementsEnd(s, i0) ==
    LET v == JsonEnd(s, JsonSkipWs(s, i0)) IN
    IF v = 0 THEN 0
    ELSE LET e == JsonSkipWs(s, v) IN
         IF e > Len(s) THEN 0
         ELSE IF s[e] = "]" THEN e + 1
         ELSE IF s[e] = "," THEN JsonElementsEnd(s, e + 1)
         ELSE 0

JsonEnd(s, i) ==
    IF i > Len(s) THEN 0
    ELSE CASE s[i] = "\"" -> JsonStringEnd(s, i)
           [] s[i] = "{" ->
                LET j == JsonSkipWs(s, i + 1) IN
                IF j <= Len(s) /\ s[j] = "}" THEN j + 1 ELSE JsonMembersEnd(s, j)
           [] s[i] = "[" ->
                LET j == JsonSkipWs(s, i + 1) IN
                IF j <= Len(s) /\ s[j] = "]" THEN j + 1 ELSE JsonElementsEnd(s, j)
           [] s[i] = "0" -> i + 1
           [] s[i] \in JsonDigits \ {"0"} -> JsonDigitsEnd(s, i)
           [] OTHER -> 0

IsJSON(str) ==
    LET v == JsonEnd(str, JsonSkipWs(str, 1))
    IN v # 0 /\ JsonSkipWs(str, v) = Len(str) + 1

(***************************************************************************)
(* Constants of the package                                                *)
(***************************************************************************)
MethodGet    == <<"G", "E", "T">>
MethodPost   == <<"P", "O", "S", "T">>
MethodPut    == <<"P", "U", "T">>
MethodDelete == <<"D", "E", "L", "E", "T", "E">>
MethodPatch  == <<"P", "A", "T", "C", "H">>

validHTTPMethods == <<MethodGet, MethodPost, MethodPut, MethodDelete, MethodPatch>>

EndpointTypeNormal == <<"n", "o", "r", "m", "a", "l">>
EndpointTypeRegex  == <<"r", "e", "g", "e", "x">>

validEndpointTypes == <<EndpointTypeNormal, EndpointTypeRegex>>

StatusNotFound == 404
StatusInternalServerError == 500

NotFoundBody == <<"N","o","t"," ","f","o","u","n","d","\n">>

UnknownErrorBody ==
    <<"U","n","k","n","o","w","n"," ","e","r","r","o","r"," ","h","a","s"," ",
      "o","c","c","u","r","r","e","d",","," ","s","e","e"," ","l","o","g","s","\n">>

ContentTypeKey == <<"C","o","n","t","e","n","t","-","T","y","p","e">>
ApplicationJSON ==
    <<"a","p","p","l","i","c","a","t","i","o","n","/","j","s","o","n">>

AuthUsernameKey ==
    <<"a","u","t","h","o","r","i","z","a","t","i","o","n","_",
      "u","s","e","r","n","a","m","e">>
AuthPasswordKey ==
    <<"a","u","t","h","o","r","i","z","a","t","i","o","n","_",
      "p","a","s","s","w","o","r","d">>

\* the nil error
NoError == [kind |-> "nil"]
ErrEndpointNotFound == [kind |-> "ErrEndpointNotFound"]

(***************************************************************************)
(* net/http.Header: a map from canonical header names to lists of values.  *)
(* Get and Set canonicalise the name (textproto.CanonicalMIMEHeaderKey:    *)
(* the first letter and every letter after "-" in upper case, the others   *)
(* in lower case; the names of the model hold only letters, "-" and "_",   *)
(* all of them token characters).                                          *)
(***************************************************************************)
CanonicalMIMEHeaderKey(s) ==
    [i \in 1..Len(s) |->
        IF i = 1 \/ s[i - 1] = "-" THEN UpperChar(s[i]) ELSE LowerChar(s[i])]

EmptyHeader == << >>

HeaderGet(h, key) ==
    LET k == CanonicalMIMEHeaderKey(key)
    IN IF k \in DOMAIN h /\ Len(h[k]) > 0 THEN h[k][1] ELSE <<>>

HeaderSet(h, key, value) ==
    LET k == CanonicalMIMEHeaderKey(key)
    IN [n \in DOMAIN h \cup {k} |-> IF n = k THEN <<value>> ELSE h[n]]

(***************************************************************************)
(* A request carries Method, RequestURI, Header and, as Auth, what         *)
(* r.BasicAuth() decodes from its Authorization header: ok = FALSE when    *)
(* the request has no Basic credentials.                                   *)
(***************************************************************************)
NoAuth == [ok |-> FALSE, username |-> <<>>, password |-> <<>>]

\* &http.Request{}: the request ValidateConfig renders with
EmptyRequest ==
    [Method |-> <<>>, RequestURI |-> <<>>, Header |-> EmptyHeader, Auth |-> NoAuth]

buildHeaderVars(r) ==
    IF r.Auth.ok
    THEN HeaderSet(HeaderSet(r.Header, AuthUsernameKey, r.Auth.username),
                   AuthPasswordKey, r.Auth.password)
    ELSE r.Header

(***************************************************************************)
(* The template files on disk (os.ReadFile) and the process environment    *)
(* (os.LookupEnv): files is a map from the paths that exist to their       *)
(* text, environ a map from the variables that are set to their values.    *)
(***************************************************************************)
ReadFile(files, path) ==
    IF path \in DOMAIN files
    THEN [err |-> NoError, data |-> files[path]]
    ELSE [err |-> [kind |-> "ReadFile", path |-> path], data |-> <<>>]

LookupEnv(environ, name) ==
    IF name \in DOMAIN environ
    THEN [found |-> TRUE, value |-> environ[name]]
    ELSE [found |-> FALSE, value |-> <<>>]

(***************************************************************************)
(* fasttemplate.NewTemplate(template, "<", ">"): the text is cut at each   *)
(* "<" and the next ">" after it into texts and tags; a "<" without a ">"  *)
(* after it is an error.                                                   *)
(***************************************************************************)
RECURSIVE NewTemplateFrom(_, _, _, _)
NewTemplateFrom(s, from, texts, tags) ==
    LET n == IndexFrom(s, "<", from) IN
    IF n = 0
    THEN [ok |-> TRUE, texts |-> Append(texts, Suffix(s, from)), tags |-> tags]
    ELSE LET m == IndexFrom(s, ">", n + 1) IN
         IF m = 0
         THEN [ok |-> FALSE, texts |-> <<>>, tags |-> <<>>]
         ELSE NewTemplateFrom(s, m + 1,
                              Append(texts, SubSeq(s, from, n - 1)),
                              Append(tags, SubSeq(s, n + 1, m - 1)))

NewTemplate(s) == NewTemplateFrom(s, 1, <<>>, <<>>)

(***************************************************************************)
(* The tag function of RenderTemplateResponse: the variables are tried in  *)
(* order; the first one named as the tag that declares a source decides.   *)
(***************************************************************************)
Undecided == [decided |-> FALSE, err |-> NoError, out |-> <<>>]

Write(bytes) == [decided |-> TRUE, err |-> NoError, out |-> bytes]

Fail(err) == [decided |-> TRUE, err |-> err, out |-> <<>>]

EnvNotFound(e, variable) ==
    [kind |-> "EnvNotFound", envVar |-> variable.EnvVar,
     template |-> e.Template, uri |-> e.Uri]

\* a body that tries the literal value before the environment variable
ResolveVariableValueFirst(e, header, environ, variable) ==
    IF variable.Value # <<>> THEN Write(variable.Value)
    ELSE IF variable.EnvVar # ""
    THEN LET envVar == LookupEnv(environ, variable.EnvVar) IN
         IF ~envVar.found THEN Fail(EnvNotFound(e, variable)) ELSE Write(envVar.value)
    ELSE IF variable.Header # <<>> THEN Write(HeaderGet(header, variable.Header))
    ELSE Undecided

\* a body that falls back to value and header when the environment variable is unset
ResolveVariableFallback(e, header, environ, variable) ==
    IF variable.EnvVar # "" /\ LookupEnv(environ, variable.EnvVar).found
    THEN Write(LookupEnv(environ, variable.EnvVar).value)
    ELSE IF variable.Value # <<>> THEN Write(variable.Value)
    ELSE IF variable.Header # <<>> THEN Write(HeaderGet(header, variable.Header))
    ELSE IF variable.EnvVar # "" THEN Fail(EnvNotFound(e, variable))
    ELSE Undecided

\* a body that fails when the header is not set
ResolveVariableHeaderRequired(e, header, environ, variable) ==
    IF variable.EnvVar # ""
    THEN LET envVar == LookupEnv(environ, variable.EnvVar) IN
         IF ~envVar.found THEN Fail(EnvNotFound(e, variable)) ELSE Write(envVar.value)
    ELSE IF variable.Value # <<>> THEN Write(variable.Value)
    ELSE IF variable.Header # <<>>
    THEN IF HeaderGet(header, variable.Header) # <<>>
         THEN Write(HeaderGet(header, variable.Header))
         ELSE Fail([kind |-> "HeaderNotFound", header |-> variable.Header])
    ELSE Undecided

\* the body of `if tag == variable.Name`: what a variable named as the tag
\* writes or fails with, undecided when it declares no source
ResolveVariable(e, header, environ, variable) ==
    IF variable.EnvVar # ""
    THEN LET envVar == LookupEnv(environ, variable.EnvVar) IN
         IF ~envVar.found THEN Fail(EnvNotFound(e, variable)) ELSE Write(envVar.value)
    ELSE IF variable.Value # <<>> THEN Write(variable.Value)
    ELSE IF variable.Header # <<>>
    THEN Write(HeaderGet(header, variable.Header))
    ELSE Undecided

\* a tag function that writes nothing for a tag it cannot resolve
NoMatchingVariableIgnored(tag) == Write(<<>>)

\* return 0, fmt.Errorf("no matching variable found for tag %s", tag)
NoMatchingVariable(tag) == Fail([kind |-> "NoMatchingVariable", tag |-> tag])

RECURSIVE TagFunc(_, _, _, _, _)
TagFunc(e, header, environ, tag, i) ==
    IF i > Len(e.Variables) THEN NoMatchingVariable(tag)
    ELSE LET variable == e.Variables[i]
             resolved == ResolveVariable(e, header, environ, variable)
         IN IF tag = variable.Name /\ resolved.decided THEN resolved
            ELSE TagFunc(e, header, environ, tag, i + 1)

\* t.ExecuteFuncStringWithErr: texts and resolved tags in turn; "" on an error
RECURSIVE ExecuteFrom(_, _, _, _, _, _)
ExecuteFrom(t, e, header, environ, i, out) ==
    IF i > Len(t.tags)
    THEN [err |-> NoError, body |-> out \o t.texts[i]]
    ELSE LET f == TagFunc(e, header, environ, t.tags[i], 1) IN
         IF f.err # NoError
         THEN [err |-> f.err, body |-> <<>>]
         ELSE ExecuteFrom(t, e, header, environ, i + 1, out \o t.texts[i] \o f.out)

RenderTemplateResponse(files, environ, e, r) ==
    LET template == ReadFile(files, e.Template) IN
    IF template.err # NoError
    THEN [err |-> template.err, body |-> <<>>]
    ELSE LET t == NewTemplate(template.data) IN
         IF ~t.ok
         THEN [err |-> [kind |-> "ParseTemplate", template |-> e.Template],
               body |-> <<>>]
         ELSE ExecuteFrom(t, e, buildHeaderVars(r), environ, 1, <<>>)

(***************************************************************************)
(* MatchEndpoint                                                           *)
(***************************************************************************)
\* the zero Endpoint{} returned with ErrEndpointNotFound
ZeroEndpoint ==
    [Uri |-> <<>>, Type |-> <<>>, Method |-> <<>>, ResponseCode |-> 0,
     Template |-> "", Variables |-> <<>>]

\* a comparison that leaves the declared method as written
MethodMatchesAsWritten(endpoint, r) == endpoint.Method = r.Method

\* strings.ToUpper(endpoint.Method) == r.Method
MethodMatches(endpoint, r) == ToUpper(endpoint.Method) = r.Method

\* a regex test that must match the whole RequestURI
UriMatchesAnchored(endpoint, r) ==
    \/ /\ endpoint.Type = EndpointTypeRegex
       /\ LET re == RegexCompile(endpoint.Uri)
          IN re.ok /\ RegexMatchHere(Append(re.atoms, RegexAtom("$")), 1, r.RequestURI, 1)
    \/ /\ endpoint.Type = EndpointTypeNormal
       /\ endpoint.Uri = r.RequestURI

\* the two tests of the endpoint's uri, by endpoint.Type
UriMatches(endpoint, r) ==
    \/ /\ endpoint.Type = EndpointTypeRegex
       /\ MatchString(endpoint.Uri, r.RequestURI)
    \/ /\ endpoint.Type = EndpointTypeNormal
       /\ endpoint.Uri = r.RequestURI

\* a loop that keeps the last match instead of returning at the first
RECURSIVE MatchEndpointLast(_, _, _)
MatchEndpointLast(endpoints, r, i) ==
    IF i > Len(endpoints) THEN 0
    ELSE LET later == MatchEndpointLast(endpoints, r, i + 1) IN
         IF later # 0 THEN later
         ELSE IF MethodMatches(endpoints[i], r) /\ UriMatches(endpoints[i], r) THEN i
         ELSE 0

\* the loop over s.Config.Endpoints from index i: the index it returns at, or 0
RECURSIVE MatchEndpointFrom(_, _, _)
MatchEndpointFrom(endpoints, r, i) ==
    IF i > Len(endpoints) THEN 0
    ELSE IF MethodMatches(endpoints[i], r) /\ UriMatches(endpoints[i], r) THEN i
    ELSE MatchEndpointFrom(endpoints, r, i + 1)

MatchEndpoint(config, r) ==
    LET i == MatchEndpointFrom(config.Endpoints, r, 1) IN
    IF i = 0
    THEN [index |-> 0, endpoint |-> ZeroEndpoint, err |-> ErrEndpointNotFound]
    ELSE [index |-> i, endpoint |-> config.Endpoints[i], err |-> NoError]

(***************************************************************************)
(* ValidateConfig                                                          *)
(***************************************************************************)
\* url.Parse(s.Config.ProxyPass) fails on an invalid escape in the host
BadProxyPass == "http://%zz"

UrlParseOK(rawURL) == rawURL # BadProxyPass

SeqContains(list, x) == \E i \in DOMAIN list : list[i] = x

\* checks that compare the method as it is written in the configuration
ValidateEndpointMethodAsWritten(files, environ, endpoint) ==
    IF endpoint.Uri = <<>> THEN [kind |-> "MissingUri"]
    ELSE IF endpoint.ResponseCode = 0 THEN [kind |-> "MissingResponseCode"]
    ELSE IF ~SeqContains(validHTTPMethods, endpoint.Method)
    THEN [kind |-> "InvalidMethod", method |-> endpoint.Method,
          uri |-> endpoint.Uri, allowed |-> validHTTPMethods]
    ELSE IF ~SeqContains(validEndpointTypes, ToLower(endpoint.Type))
    THEN [kind |-> "InvalidType", type |-> endpoint.Type,
          uri |-> endpoint.Uri, allowed |-> validEndpointTypes]
    ELSE IF endpoint.Template = "" THEN NoError
    ELSE LET rendered == RenderTemplateResponse(files, environ, endpoint, EmptyRequest)
         IN IF rendered.err # NoError
            THEN [kind |-> "UnableToRender", template |-> endpoint.Template,
                  cause |-> rendered.err]
            ELSE IF ~IsJSON(rendered.body)
            THEN [kind |-> "InvalidJSON", template |-> endpoint.Template,
                  rendered |-> rendered.body]
            ELSE NoError

\* the checks of one endpoint, in the order of the code
ValidateEndpoint(files, environ, endpoint) ==
    IF endpoint.Uri = <<>> THEN [kind |-> "MissingUri"]
    ELSE IF endpoint.ResponseCode = 0 THEN [kind |-> "MissingResponseCode"]
    ELSE IF ~SeqContains(validHTTPMethods, ToUpper(endpoint.Method))
    THEN [kind |-> "InvalidMethod", method |-> endpoint.Method,
          uri |-> endpoint.Uri, allowed |-> validHTTPMethods]
    ELSE IF ~SeqContains(validEndpointTypes, ToLower(endpoint.Type))
    THEN [kind |-> "InvalidType", type |-> endpoint.Type,
          uri |-> endpoint.Uri, allowed |-> validEndpointTypes]
    ELSE IF endpoint.Template = "" THEN NoError
    ELSE LET rendered == RenderTemplateResponse(files, environ, endpoint, EmptyRequest)
         IN IF rendered.err # NoError
            THEN [kind |-> "UnableToRender", template |-> endpoint.Template,
                  cause |-> rendered.err]
            ELSE IF ~IsJSON(rendered.body)
            THEN [kind |-> "InvalidJSON", template |-> endpoint.Template,
                  rendered |-> rendered.body]
            ELSE NoError

RECURSIVE ValidateEndpointsFrom(_, _, _, _)
ValidateEndpointsFrom(files, environ, endpoints, i) ==
    IF i > Len(endpoints) THEN [err |-> NoError, index |-> 0]
    ELSE LET err == ValidateEndpoint(files, environ, endpoints[i]) IN
         IF err # NoError THEN [err |-> err, index |-> i]
         ELSE ValidateEndpointsFrom(files, environ, endpoints, i + 1)

\* the error ValidateConfig returns, with the index of the endpoint it is about
ValidateConfig(config, files, environ) ==
    IF config.ProxyPass # "" /\ ~UrlParseOK(config.ProxyPass)
    THEN [err |-> [kind |-> "UrlParse", url |-> config.ProxyPass], index |-> 0]
    ELSE ValidateEndpointsFrom(files, environ, config.Endpoints, 1)

(***************************************************************************)
(* censorVariables                                                         *)
(***************************************************************************)
Repeat(c, n) == [i \in 1..n |-> c]

\* strings.ReplaceAll(text, old, new) from position i, old non-empty
RECURSIVE ReplaceAllFrom(_, _, _, _)
ReplaceAllFrom(text, old, new, i) ==
    IF i + Len(old) - 1 > Len(text) THEN Suffix(text, i)
    ELSE IF SubSeq(text, i, i + Len(old) - 1) = old
    THEN new \o ReplaceAllFrom(text, old, new, i + Len(old))
    ELSE <<text[i]>> \o ReplaceAllFrom(text, old, new, i + 1)

\* the value censorVariables replaces for one variable ("" for none)
ToReplace(environ, variable) ==
    LET envValue == LookupEnv(environ, variable.EnvVar)
    IN IF variable.EnvVar # "" /\ envValue.found THEN envValue.value
       ELSE variable.Value

RECURSIVE censorVariablesFrom(_, _, _, _)
censorVariablesFrom(environ, text, vars, i) ==
    IF i > Len(vars) THEN text
    ELSE LET toReplace == ToReplace(environ, vars[i]) IN
         censorVariablesFrom(environ,
             IF toReplace # <<>>
             THEN ReplaceAllFrom(text, toReplace, Repeat("*", Len(toReplace)), 1)
             ELSE text,
             vars, i + 1)

censorVariables(environ, text, vars) == censorVariablesFrom(environ, text, vars, 1)

(***************************************************************************)
(* The response and the log of one request.  w records what the handler    *)
(* does to its http.ResponseWriter: the headers it sets, the status it     *)
(* passes to WriteHeader and the bytes it passes to Write.  ctx is the     *)
(* response body attached to the request context for logging (has = FALSE  *)
(* when none is).  The log entry of a request holds the status of its      *)
(* access line, the logged response body, the body dumped by the           *)
(* "not expected valid JSON" line and the error errorHandler printed.      *)
(* Requests of the model carry no body, so ContextKeyReqBody is never set. *)
(***************************************************************************)
NoBody == [has |-> FALSE, body |-> <<>>]

SomeBody(b) == [has |-> TRUE, body |-> b]

NewResponseWriter == [Header |-> EmptyHeader, Status |-> 0, Body |-> <<>>]

\* the log of a request that logged nothing
NoLog ==
    [access |-> FALSE, status |-> 0, proxied |-> FALSE, resBody |-> NoBody,
     errorLogged |-> NoError, notJSON |-> NoBody]

\* a body that does not set the Content-Type of a JSON response
logRequestAndRespondNoContentType(w, ctx, logged, status, res, jsonResponse, proxied) ==
    LET line == [access |-> TRUE, status |-> status, proxied |-> proxied,
                 resBody |-> ctx, errorLogged |-> logged, notJSON |-> NoBody]
    IN IF jsonResponse /\ ~IsJSON(res)
       THEN [w |-> [w EXCEPT !.Status = StatusInternalServerError,
                             !.Body = UnknownErrorBody],
             log |-> [line EXCEPT !.notJSON = SomeBody(res)]]
       ELSE [w |-> [Header |-> w.Header, Status |-> status, Body |-> res],
             log |-> line]

\* a body that does not check a JSON response before it is written
logRequestAndRespondUnchecked(w, ctx, logged, status, res, jsonResponse, proxied) ==
    [w |-> [Header |-> IF jsonResponse
                       THEN HeaderSet(w.Header, ContentTypeKey, ApplicationJSON)
                       ELSE w.Header,
            Status |-> status,
            Body |-> res],
     log |-> [access |-> TRUE, status |-> status, proxied |-> proxied,
              resBody |-> ctx, errorLogged |-> logged, notJSON |-> NoBody]]

logRequestAndRespond(w, ctx, logged, status, res, jsonResponse, proxied) ==
    LET line == [access |-> TRUE, status |-> status, proxied |-> proxied,
                 resBody |-> ctx, errorLogged |-> logged, notJSON |-> NoBody]
    IN IF jsonResponse /\ ~IsJSON(res)
       THEN [w |-> [w EXCEPT !.Status = StatusInternalServerError,
                             !.Body = UnknownErrorBody],
             log |-> [line EXCEPT !.notJSON = SomeBody(res)]]
       ELSE [w |-> [Header |-> IF jsonResponse
                               THEN HeaderSet(w.Header, ContentTypeKey, ApplicationJSON)
                               ELSE w.Header,
                    Status |-> status,
                    Body |-> res],
             log |-> line]

\* l.Printf("%s: %v\n", msg, err), then the generic 500
errorHandler(w, ctx, err, proxied) ==
    logRequestAndRespond(w, ctx, err, StatusInternalServerError, UnknownErrorBody,
                         FALSE, proxied)

(***************************************************************************)
(* proxyHandler.  upstream is what the origin does with the forwarded      *)
(* request: kind "DoError" (client.Do fails: refused, timeout), kind       *)
(* "ReadError" (the response arrives, reading its body fails) or kind      *)
(* "Response"; StatusCode, Header and Body are the response's.  With a     *)
(* proxy URL that url.Parse rejects, pu is nil and pu.Host panics before   *)
(* anything is logged or written.                                          *)
(***************************************************************************)
\* for k, values := range resp.Header { for _, v := range values { w.Header().Set(k, v) } }
CopyHeader(dst, src) ==
    LET set == {k \in DOMAIN src : Len(src[k]) > 0}
    IN [k \in DOMAIN dst \cup {CanonicalMIMEHeaderKey(n) : n \in set} |->
          IF \E n \in set : CanonicalMIMEHeaderKey(n) = k
          THEN LET n == CHOOSE n \in set : CanonicalMIMEHeaderKey(n) = k
               IN <<src[n][Len(src[n])]>>
          ELSE dst[k]]

\* a body that requires JSON of the origin's response as of a stub response
proxyHandlerRequiresJSON(proxyURL, w, r, upstream, logResponse) ==
    IF ~UrlParseOK(proxyURL)
    THEN [w |-> w, log |-> NoLog, forwarded |-> FALSE, panicked |-> TRUE]
    ELSE IF upstream.kind = "DoError"
    THEN errorHandler(w, NoBody, [kind |-> "ProxyConnect"], TRUE)
         @@ [forwarded |-> TRUE, panicked |-> FALSE]
    ELSE LET w1 == [w EXCEPT !.Header = CopyHeader(w.Header, upstream.Header)] IN
         IF upstream.kind = "ReadError"
         THEN errorHandler(w1, NoBody, [kind |-> "ProxyRead"], TRUE)
              @@ [forwarded |-> TRUE, panicked |-> FALSE]
         ELSE logRequestAndRespond(w1,
                  IF logResponse THEN SomeBody(upstream.Body) ELSE NoBody,
                  NoError, upstream.StatusCode, upstream.Body, TRUE, TRUE)
              @@ [forwarded |-> TRUE, panicked |-> FALSE]

proxyHandler(proxyURL, w, r, upstream, logResponse) ==
    IF ~UrlParseOK(proxyURL)
    THEN [w |-> w, log |-> NoLog, forwarded |-> FALSE, panicked |-> TRUE]
    ELSE IF upstream.kind = "DoError"
    THEN errorHandler(w, NoBody, [kind |-> "ProxyConnect"], TRUE)
         @@ [forwarded |-> TRUE, panicked |-> FALSE]
    ELSE LET w1 == [w EXCEPT !.Header = CopyHeader(w.Header, upstream.Header)] IN
         IF upstream.kind = "ReadError"
         THEN errorHandler(w1, NoBody, [kind |-> "ProxyRead"], TRUE)
              @@ [forwarded |-> TRUE, panicked |-> FALSE]
         ELSE logRequestAndRespond(w1,
                  IF logResponse THEN SomeBody(upstream.Body) ELSE NoBody,
                  NoError, upstream.StatusCode, upstream.Body,
                  IsJSON(upstream.Body), TRUE)
              @@ [forwarded |-> TRUE, panicked |-> FALSE]

(***************************************************************************)
(* ServeHTTP: the response written (w), the log entry (log), whether the   *)
(* request was sent to the proxy origin (forwarded), whether the handler   *)
(* panicked, the index of the matched endpoint (0: none) and the result    *)
(* of rendering its template (rendered.done = FALSE when nothing was       *)
(* rendered).                                                              *)
(***************************************************************************)
NotRendered == [done |-> FALSE, err |-> NoError, body |-> <<>>]

\* a test that never takes the proxy branch
ProxyConfiguredNever(config) == FALSE

\* s.Config.ProxyPass != ""
ProxyConfigured(config) == config.ProxyPass # ""

ServeHTTP(config, files, environ, r, upstream) ==
    LET w == NewResponseWriter
        m == MatchEndpoint(config, r)
        endpoint == m.endpoint
        direct(res, rendered) ==
            [w |-> res.w, log |-> res.log, forwarded |-> FALSE, panicked |-> FALSE,
             index |-> m.index, rendered |-> rendered]
    IN IF m.err = ErrEndpointNotFound
       THEN IF ProxyConfigured(config)
            THEN proxyHandler(config.ProxyPass, w, r, upstream,
                              config.Logging.ResponseContents)
                 @@ [index |-> 0, rendered |-> NotRendered]
            ELSE direct(logRequestAndRespond(w, NoBody, NoError, StatusNotFound,
                                             NotFoundBody, FALSE, FALSE),
                        NotRendered)
       ELSE IF endpoint.Template = ""
       THEN direct(logRequestAndRespond(w, NoBody, NoError, endpoint.ResponseCode,
                                        <<>>, FALSE, FALSE),
                   NotRendered)
       ELSE LET resp == RenderTemplateResponse(files, environ, endpoint, r)
                rendered == [done |-> TRUE, err |-> resp.err, body |-> resp.body]
            IN IF resp.err # NoError
               THEN direct(errorHandler(w, NoBody, resp.err, FALSE), rendered)
               ELSE direct(logRequestAndRespond(w,
                        IF config.Logging.ResponseContents
                        THEN SomeBody(censorVariables(environ, resp.body,
                                                      endpoint.Variables))
                        ELSE NoBody,
                        NoError, endpoint.ResponseCode, resp.body, TRUE, FALSE),
                        rendered)

(***************************************************************************)
(* The bounded universe: the configurations a handler is built with, the   *)
(* template files, the environments, the requests and the upstream         *)
(* behaviours.                                                             *)
(***************************************************************************)
MaxEndpoints == 2
MaxVariables == 2

\* all sequences over S of length at most n
RECURSIVE SeqsUpTo(_, _)
SeqsUpTo(S, n) ==
    IF n = 0 THEN {<<>>}
    ELSE LET shorter == SeqsUpTo(S, n - 1)
         IN shorter \cup {Append(s, x) : s \in shorter, x \in S}

UriA       == <<"/", "a">>
UriAQuery  == <<"/", "a", "?", "i">>
UriASlash  == <<"/", "a", "/">>
UriI       == <<"/", "i">>
UriAnchored == <<"^", "/", "a", "$">>

MethodGetLower == <<"g", "e", "t">>
MethodTrace    == <<"T", "R", "A", "C", "E">>
TypeRegexMixed == <<"R", "e", "g", "e", "x">>

\* test/response-example.json of the tests, and two more templates
TemplateFiles ==
    [item |-> <<"{", "\"", "i", "t", "e", "m", "\"", ":", " ",
                "\"", "<", "i", "t", "e", "m", "1", ">", "\"", "}">>,
     pair |-> <<"[", "\"", "<", "i", "t", "e", "m", "1", ">", "\"", ",",
                "\"", "<", "s", ">", "\"", "]">>,
     open |-> <<"{", "<", "i", "t", "e", "m", "1", "}">>]

TagItem1 == <<"i", "t", "e", "m", "1">>
TagS     == <<"s">>

ValueTest123 == <<"t", "e", "s", "t", "1", "2", "3">>
ValueSecret  == <<"s", "e", "c", "r", "e", "t">>
ValueNumber  == <<"1", "2">>
ValueQuote   == <<"1", "\"", "2">>

HeaderXToken == <<"x", "-", "t", "o", "k", "e", "n">>

\* endpoints that differ in how they match; none has a template
MatchEndpoints ==
    {[Uri |-> u, Type |-> ty, Method |-> m, ResponseCode |-> 204,
      Template |-> "", Variables |-> <<>>] :
        u \in {UriA, UriAQuery, UriAnchored},
        ty \in {EndpointTypeNormal, EndpointTypeRegex, TypeRegexMixed, <<>>},
        m \in {MethodGet, MethodGetLower, MethodTrace}}

\* those of them that ValidateConfig accepts, for the longer endpoint lists
OrderedEndpoints ==
    {e \in MatchEndpoints : /\ e.Type \in {EndpointTypeNormal, EndpointTypeRegex}
                            /\ e.Method \in {MethodGet, MethodGetLower}}

\* the variables of the templated endpoints: for tag item1 every combination
\* of env_var, value and header, and the Basic user name; a literal for tag s
TemplateVariables ==
    {[Name |-> TagItem1, EnvVar |-> ev, Value |-> v, Header |-> h] :
        ev \in {"", "SECRET"}, v \in {<<>>, ValueTest123}, h \in {<<>>, HeaderXToken}}
    \cup {[Name |-> TagItem1, EnvVar |-> "", Value |-> <<>>, Header |-> AuthUsernameKey],
          [Name |-> TagS, EnvVar |-> "", Value |-> ValueNumber, Header |-> <<>>]}

\* GET /a endpoints that differ in template and variables
TemplateEndpoints ==
    {[Uri |-> UriA, Type |-> EndpointTypeNormal, Method |-> MethodGet,
      ResponseCode |-> IF tp = "item" THEN 200 ELSE 201,
      Template |-> tp, Variables |-> vs] :
        tp \in {"item", "pair"},
        vs \in SeqsUpTo(TemplateVariables, MaxVariables)}
    \cup
    {[Uri |-> UriA, Type |-> EndpointTypeNormal, Method |-> MethodGet,
      ResponseCode |-> 200, Template |-> tp, Variables |-> <<>>] :
        tp \in {"open", "missing"}}

\* endpoints that differ in what ValidateConfig finds in them: nothing (the
\* first and the last), no uri, no response_code, a method and a type that
\* are not allowed, a template that does not render and one that renders to
\* text that is not JSON.  No request of the model matches the endpoints
\* without a response_code.
ValidationEndpoints ==
    {[Uri |-> UriA, Type |-> EndpointTypeNormal, Method |-> MethodGetLower,
      ResponseCode |-> 204, Template |-> "", Variables |-> <<>>],
     [Uri |-> <<>>, Type |-> EndpointTypeNormal, Method |-> MethodTrace,
      ResponseCode |-> 0, Template |-> "", Variables |-> <<>>],
     [Uri |-> UriAnchored, Type |-> EndpointTypeNormal, Method |-> MethodGet,
      ResponseCode |-> 0, Template |-> "pair", Variables |-> <<>>],
     [Uri |-> UriA, Type |-> <<>>, Method |-> MethodTrace,
      ResponseCode |-> 204, Template |-> "", Variables |-> <<>>],
     [Uri |-> UriA, Type |-> <<>>, Method |-> MethodGet,
      ResponseCode |-> 204, Template |-> "pair", Variables |-> <<>>],
     [Uri |-> UriA, Type |-> EndpointTypeNormal, Method |-> MethodGet,
      ResponseCode |-> 201, Template |-> "pair", Variables |-> <<>>],
     [Uri |-> UriA, Type |-> EndpointTypeNormal, Method |-> MethodGet,
      ResponseCode |-> 200, Template |-> "item",
      Variables |-> <<[Name |-> TagItem1, EnvVar |-> "", Value |-> ValueQuote,
                       Header |-> <<>>]>>],
     [Uri |-> UriA, Type |-> TypeRegexMixed, Method |-> MethodGet,
      ResponseCode |-> 200, Template |-> "item",
      Variables |-> <<[Name |-> TagItem1, EnvVar |-> "", Value |-> <<>>,
                       Header |-> HeaderXToken]>>]}

ProxyOrigin == "http://upstream.example"

NoEnviron == << >>

\* a handler's configuration with the environment of its process
Worlds ==
    {[config |-> [Endpoints |-> es, ProxyPass |-> pp,
                  Logging |-> [ResponseContents |-> FALSE]],
      environ |-> NoEnviron] :
        es \in {<<e>> : e \in MatchEndpoints}
               \cup SeqsUpTo(OrderedEndpoints, MaxEndpoints),
        pp \in {"", ProxyOrigin}}
    \cup
    {[config |-> [Endpoints |-> <<e>>, ProxyPass |-> "",
                  Logging |-> [ResponseContents |-> lg]],
      environ |-> env] :
        e \in TemplateEndpoints, lg \in BOOLEAN,
        env \in {NoEnviron, [SECRET |-> ValueSecret]}}
    \cup
    {[config |-> [Endpoints |-> es, ProxyPass |-> "",
                  Logging |-> [ResponseContents |-> FALSE]],
      environ |-> NoEnviron] :
        es \in SeqsUpTo(ValidationEndpoints, MaxEndpoints)}
    \cup
    {[config |-> [Endpoints |-> es, ProxyPass |-> BadProxyPass,
                  Logging |-> [ResponseContents |-> FALSE]],
      environ |-> NoEnviron] :
        es \in {<<>>} \cup {<<e>> : e \in ValidationEndpoints}}

\* requests that differ in method and RequestURI, and GET /a requests that
\* differ in headers and Basic credentials
PlainRequests ==
    {[Method |-> m, RequestURI |-> u, Header |-> EmptyHeader, Auth |-> NoAuth] :
        m \in {MethodGet, MethodGetLower, MethodTrace},
        u \in {UriA, UriAQuery, UriASlash, UriI}}

HeaderRequests ==
    {[Method |-> MethodGet, RequestURI |-> UriA, Header |-> h, Auth |-> a] :
        h \in {HeaderSet(EmptyHeader, HeaderXToken, ValueNumber),
               HeaderSet(EmptyHeader, HeaderXToken, ValueQuote),
               HeaderSet(EmptyHeader, AuthUsernameKey, ValueNumber)},
        a \in {NoAuth, [ok |-> TRUE, username |-> ValueTest123, password |-> ValueSecret]}}

Requests == PlainRequests \cup HeaderRequests

SetCookieKey == <<"S", "e", "t", "-", "C", "o", "o", "k", "i", "e">>
TextPlain == <<"t", "e", "x", "t", "/", "p", "l", "a", "i", "n">>
UpstreamJSON == <<"{", "}">>
UpstreamText == <<"o", "k">>

Upstreams ==
    {[kind |-> "DoError", StatusCode |-> 0, Header |-> EmptyHeader, Body |-> <<>>],
     [kind |-> "ReadError", StatusCode |-> 200,
      Header |-> HeaderSet(EmptyHeader, ContentTypeKey, ApplicationJSON),
      Body |-> <<>>],
     [kind |-> "Response", StatusCode |-> 200,
      Header |-> HeaderSet(EmptyHeader, ContentTypeKey, TextPlain),
      Body |-> UpstreamJSON],
     [kind |-> "Response", StatusCode |-> 502,
      Header |-> [k \in {SetCookieKey} |-> <<ValueNumber, ValueSecret>>],
      Body |-> UpstreamText]}

(***************************************************************************)
(* The state: the handler's configuration and the process environment      *)
(* (both fixed once the handler is built), the result of ValidateConfig    *)
(* once it has run, and the last call of a method of the handler with its  *)
(* arguments and result.                                                   *)
(***************************************************************************)
VARIABLES config, environ, validated, last

vars == <<config, environ, validated, last>>

NotValidated == [done |-> FALSE, err |-> NoError, index |-> 0]

Idle == [op |-> "none"]

Init ==
    /\ \E world \in Worlds : config = world.config /\ environ = world.environ
    /\ validated = NotValidated
    /\ last = Idle

\* main calls h.ValidateConfig() once, before it serves
ValidateConfigCall ==
    /\ last = Idle
    /\ ~validated.done
    /\ validated' = [done |-> TRUE] @@ ValidateConfig(config, TemplateFiles, environ)
    /\ UNCHANGED <<config, environ, last>>

MatchEndpointCall ==
    /\ last = Idle
    /\ \E r \in Requests :
        /\ last' = [op |-> "MatchEndpoint", r |-> r, res |-> MatchEndpoint(config, r)]
        /\ UNCHANGED <<config, environ, validated>>

RenderTemplateResponseCall ==
    /\ last = Idle
    /\ \E i \in DOMAIN config.Endpoints, r \in HeaderRequests \cup {EmptyRequest} :
        /\ last' = [op |-> "RenderTemplateResponse", e |-> config.Endpoints[i], r |-> r,
                    res |-> RenderTemplateResponse(TemplateFiles, environ,
                                                   config.Endpoints[i], r)]
        /\ UNCHANGED <<config, environ, validated>>

\* the origin is consulted only by a request that is forwarded
NoUpstream == [kind |-> "None", StatusCode |-> 0, Header |-> EmptyHeader, Body |-> <<>>]

Forwards(r) ==
    /\ MatchEndpoint(config, r).err = ErrEndpointNotFound
    /\ ProxyConfigured(config)
    /\ UrlParseOK(config.ProxyPass)

ServeHTTPCall ==
    /\ last = Idle
    /\ \E r \in Requests :
        \E upstream \in IF Forwards(r) THEN Upstreams ELSE {NoUpstream} :
            /\ last' = [op |-> "ServeHTTP", r |-> r, upstream |-> upstream,
                        res |-> ServeHTTP(config, TemplateFiles, environ, r, upstream)]
            /\ UNCHANGED <<config, environ, validated>>

\* the call returns: the handler keeps nothing of it
Return ==
    /\ last # Idle
    /\ last' = Idle
    /\ UNCHANGED <<config, environ, validated>>

Next ==
    \/ ValidateConfigCall
    \/ MatchEndpointCall
    \/ RenderTemplateResponseCall
    \/ ServeHTTPCall
    \/ Return

Spec == Init /\ [][Next]_vars

(***************************************************************************)
(* Claims about MatchEndpoint                                              *)
(***************************************************************************)
\* the endpoints the loop of the last MatchEndpoint call looked at: those up
\* to the one it returned, all of them when it returned none
Examined ==
    {i \in DOMAIN config.Endpoints : last.res.index = 0 \/ i <= last.res.index}

\* the configured endpoints that match request r in method and uri
Matching(r) ==
    {i \in DOMAIN config.Endpoints :
        MethodMatches(config.Endpoints[i], r) /\ UriMatches(config.Endpoints[i], r)}

\* C1: MatchEndpoint returns the matching endpoint of the lowest declaration
\* index, never a later one in place of an earlier one, and returns
\* ErrEndpointNotFound exactly when no endpoint matches.
C1_FirstMatchWins ==
    last.op = "MatchEndpoint" =>
        LET M == Matching(last.r) IN
        /\ (M = {}) <=> (last.res.err = ErrEndpointNotFound)
        /\ M = {} => last.res.index = 0 /\ last.res.endpoint = ZeroEndpoint
        /\ M # {} =>
            /\ last.res.err = NoError
            /\ last.res.index \in M
            /\ \A j \in M : last.res.index <= j
            /\ last.res.endpoint = config.Endpoints[last.res.index]

\* two different endpoints match the request and the first one is returned
C1_Witness ==
    /\ last.op = "MatchEndpoint"
    /\ Len(config.Endpoints) = 2
    /\ Matching(last.r) = {1, 2}
    /\ config.Endpoints[1] # config.Endpoints[2]
    /\ last.res.endpoint = config.Endpoints[1]

\* C2: of the endpoints whose method matches, a normal endpoint matches iff
\* its uri equals the RequestURI character for character (query string
\* included), and a regex endpoint matches iff its uri, as a regular
\* expression, is found anywhere in the RequestURI.
C2_UriRule ==
    last.op = "MatchEndpoint" =>
        \A i \in Examined :
            LET e == config.Endpoints[i]
                returned == (i = last.res.index)
            IN MethodMatches(e, last.r) =>
                /\ e.Type = EndpointTypeNormal =>
                      (returned <=> e.Uri = last.r.RequestURI)
                /\ e.Type = EndpointTypeRegex =>
                      (returned <=> MatchString(e.Uri, last.r.RequestURI))

\* a regex endpoint /a is returned for /a/, which it matches only as a part;
\* a normal endpoint /a is passed over for /a?i ...
C2_Witness ==
    /\ last.op = "MatchEndpoint"
    /\ Len(config.Endpoints) = 2
    /\ config.Endpoints[1].Type = EndpointTypeNormal
    /\ config.Endpoints[1].Uri = UriA
    /\ config.Endpoints[2].Type = EndpointTypeRegex
    /\ config.Endpoints[2].Uri = UriA
    /\ MethodMatches(config.Endpoints[1], last.r)
    /\ last.r.RequestURI = UriAQuery
    /\ last.res.index = 2

\* C3 as stated: an endpoint (whose uri matches) is a candidate exactly when
\* its declared method and the request's method are equal ignoring case.
C3_Original_CaseInsensitive ==
    last.op = "MatchEndpoint" =>
        \A i \in Examined :
            LET e == config.Endpoints[i] IN
            UriMatches(e, last.r) =>
                ((i = last.res.index) <=> ToUpper(e.Method) = ToUpper(last.r.Method))

\* C3 amended: an endpoint (whose uri matches) is a candidate exactly when
\* its declared method in upper case equals the request's method as
\* received: the declared method's case is ignored, the request's is not.
C3_DeclaredMethodUpperCased ==
    last.op = "MatchEndpoint" =>
        \A i \in Examined :
            LET e == config.Endpoints[i] IN
            UriMatches(e, last.r) =>
                ((i = last.res.index) <=> ToUpper(e.Method) = last.r.Method)

\* declared "get" is returned for a GET request
C3_Witness ==
    /\ last.op = "MatchEndpoint"
    /\ last.res.index = 1
    /\ config.Endpoints[1].Method = MethodGetLower
    /\ last.r.Method = MethodGet

(***************************************************************************)
(* Claims about RenderTemplateResponse                                     *)
(***************************************************************************)
\* the tags of the template files, in the order of the text
TemplateTags == [item |-> <<TagItem1>>, pair |-> <<TagItem1, TagS>>]

\* what template "item" renders to with x in place of its tag
ItemBody(x) ==
    <<"{", "\"", "i", "t", "e", "m", "\"", ":", " ", "\"">> \o x \o <<"\"", "}">>

Declares(variable) ==
    variable.EnvVar # "" \/ variable.Value # <<>> \/ variable.Header # <<>>

\* the indices of e's variables named tag
Named(e, tag) == {i \in DOMAIN e.Variables : e.Variables[i].Name = tag}

\* the index of the variable that resolves tag: the first one of that name
\* that declares a source (0: none)
Resolving(e, tag) ==
    LET S == {i \in Named(e, tag) : Declares(e.Variables[i])}
    IN IF S = {} THEN 0 ELSE CHOOSE i \in S : \A j \in S : i <= j

IsRenderOfItem ==
    /\ last.op = "RenderTemplateResponse"
    /\ last.e.Template = "item"
    /\ Resolving(last.e, TagItem1) # 0

ItemVariable == last.e.Variables[Resolving(last.e, TagItem1)]

\* C4: the sources of the variable that resolves a tag are used with
\* precedence env_var > value > header: with env_var declared the result is
\* the environment variable's value (or the failure of C5), never the value
\* or the header; the value is used only without env_var; the header only
\* without env_var and value.
C4_SourcePrecedence ==
    IsRenderOfItem =>
        LET v == ItemVariable IN
        /\ v.EnvVar # "" /\ v.EnvVar \in DOMAIN environ =>
              /\ last.res.err = NoError
              /\ last.res.body = ItemBody(environ[v.EnvVar])
        /\ v.EnvVar # "" /\ v.EnvVar \notin DOMAIN environ =>
              last.res.err # NoError
        /\ v.EnvVar = "" /\ v.Value # <<>> =>
              /\ last.res.err = NoError
              /\ last.res.body = ItemBody(v.Value)
        /\ v.EnvVar = "" /\ v.Value = <<>> =>
              /\ last.res.err = NoError
              /\ last.res.body = ItemBody(HeaderGet(buildHeaderVars(last.r), v.Header))

\* a variable with all three sources, the header set in the request: the
\* environment variable's value is rendered
C4_Witness ==
    /\ IsRenderOfItem
    /\ ItemVariable.EnvVar = "SECRET"
    /\ ItemVariable.Value = ValueTest123
    /\ ItemVariable.Header = HeaderXToken
    /\ HeaderGet(last.r.Header, HeaderXToken) = ValueNumber
    /\ last.res.body = ItemBody(ValueSecret)

IsRender ==
    /\ last.op = "RenderTemplateResponse"
    /\ last.e.Template \in DOMAIN TemplateTags

IsHeaderSourced(variable) ==
    variable.EnvVar = "" /\ variable.Value = <<>> /\ variable.Header # <<>>

\* the value of header name as the request carries it ("" when absent)
RequestHeader(r, name) ==
    LET k == CanonicalMIMEHeaderKey(name)
    IN IF k \in DOMAIN r.Header THEN r.Header[k][1] ELSE <<>>

\* C6 as stated: a tag resolved by a header-sourced variable is replaced by
\* the request's value of that header, by "" when the request has no such
\* header; rendering does not fail.
C6_Original_RequestHeader ==
    IsRenderOfItem /\ IsHeaderSourced(ItemVariable) =>
        /\ last.res.err = NoError
        /\ last.res.body = ItemBody(RequestHeader(last.r, ItemVariable.Header))

\* the header as the renderer sees it: the Basic credentials of the request
\* stand for authorization_username and authorization_password
RenderedHeader(r, name) ==
    LET k == CanonicalMIMEHeaderKey(name) IN
    IF r.Auth.ok /\ k = CanonicalMIMEHeaderKey(AuthUsernameKey) THEN r.Auth.username
    ELSE IF r.Auth.ok /\ k = CanonicalMIMEHeaderKey(AuthPasswordKey) THEN r.Auth.password
    ELSE RequestHeader(r, name)

\* C6 amended: a tag resolved by a header-sourced variable is replaced by the
\* request's value of that header, by "" when the request has no such
\* header, except that for a request with Basic credentials the names
\* authorization_username and authorization_password stand for the user name
\* and the password; rendering does not fail, and ValidateConfig, which
\* renders without a request, accepts the endpoint when its other fields
\* and the proxy origin are valid.
C6_HeaderSource ==
    /\ IsRenderOfItem /\ IsHeaderSourced(ItemVariable) =>
          /\ last.res.err = NoError
          /\ last.res.body = ItemBody(RenderedHeader(last.r, ItemVariable.Header))
    /\ /\ validated.done
       /\ config.ProxyPass = "" \/ UrlParseOK(config.ProxyPass)
       /\ Len(config.Endpoints) = 1
       /\ config.Endpoints[1].Uri # <<>>
       /\ config.Endpoints[1].ResponseCode # 0
       /\ SeqContains(validHTTPMethods, ToUpper(config.Endpoints[1].Method))
       /\ SeqContains(validEndpointTypes, ToLower(config.Endpoints[1].Type))
       /\ config.Endpoints[1].Template = "item"
       /\ Resolving(config.Endpoints[1], TagItem1) # 0
       /\ IsHeaderSourced(
              config.Endpoints[1].Variables[Resolving(config.Endpoints[1], TagItem1)])
       => validated.err = NoError

\* rendered without a request, as ValidateConfig does: the header is absent
\* and the tag is replaced by ""
C6_Witness ==
    /\ IsRenderOfItem
    /\ IsHeaderSourced(ItemVariable)
    /\ last.r = EmptyRequest
    /\ last.res.err = NoError
    /\ last.res.body = ItemBody(<<>>)
    /\ validated.done
    /\ validated.err = NoError

\* the positions in the template's tag list of the tags that no variable of
\* endpoint e is named as
UnknownTags(e) ==
    IF e.Template \in DOMAIN TemplateTags
    THEN {p \in DOMAIN TemplateTags[e.Template] :
             Named(e, TemplateTags[e.Template][p]) = {}}
    ELSE {}

FirstUnknownTag(e) == CHOOSE p \in UnknownTags(e) : \A q \in UnknownTags(e) : p <= q

\* whether the tag at position p of e's template is resolved without failure
Resolves(e, p) ==
    LET k == Resolving(e, TemplateTags[e.Template][p]) IN
    /\ k # 0
    /\ e.Variables[k].EnvVar # "" => e.Variables[k].EnvVar \in DOMAIN environ

UnknownTagError(e) ==
    [kind |-> "NoMatchingVariable",
     tag |-> TemplateTags[e.Template][FirstUnknownTag(e)]]

\* C7 as stated (its part about the renderer): a template with a tag that no
\* variable of the endpoint is named as always fails rendering with the
\* unknown-tag error naming the tag.
C7_Original_AlwaysUnknownTagError ==
    last.op = "RenderTemplateResponse" /\ UnknownTags(last.e) # {} =>
        last.res.err = UnknownTagError(last.e)

\* C7 amended: a template with a tag that no variable of the endpoint is
\* named as always fails rendering and returns no body; the error is the
\* unknown-tag error naming the tag unless an earlier tag of the template
\* fails first (its environment variable is unset, or no variable of its
\* name declares a source).  ValidateConfig rejects such a configuration
\* and ServeHTTP answers a request matching such an endpoint with status
\* 500 and the generic message.
C7_UnknownTagFails ==
    /\ last.op = "RenderTemplateResponse" /\ UnknownTags(last.e) # {} =>
          /\ last.res.err # NoError
          /\ last.res.body = <<>>
          /\ (\A p \in 1..(FirstUnknownTag(last.e) - 1) : Resolves(last.e, p))
                => last.res.err = UnknownTagError(last.e)
    /\ validated.done /\ (\E i \in DOMAIN config.Endpoints :
                              UnknownTags(config.Endpoints[i]) # {})
          => validated.err # NoError
    /\ /\ last.op = "ServeHTTP"
       /\ last.res.index # 0
       /\ UnknownTags(config.Endpoints[last.res.index]) # {}
       => /\ last.res.w.Status = StatusInternalServerError
          /\ last.res.w.Body = UnknownErrorBody

\* a configuration that ValidateConfig rejected for its unknown tag, served
\* all the same: the request that matches the endpoint gets the 500
C7_Witness ==
    /\ validated.done
    /\ validated.err.kind = "UnableToRender"
    /\ validated.err.cause.kind = "NoMatchingVariable"
    /\ last.op = "ServeHTTP"
    /\ last.res.index = 1
    /\ config.Endpoints[1].Template = "pair"
    /\ UnknownTags(config.Endpoints[1]) = {2}
    /\ last.res.rendered.err = [kind |-> "NoMatchingVariable", tag |-> TagS]
    /\ last.res.w.Status = StatusInternalServerError

(***************************************************************************)
(* Claims about ServeHTTP                                                  *)
(***************************************************************************)
\* the last call is a ServeHTTP whose request matched an endpoint with a template
IsStubRender ==
    /\ last.op = "ServeHTTP"
    /\ last.res.index # 0
    /\ config.Endpoints[last.res.index].Template # ""

ServedEndpoint == config.Endpoints[last.res.index]

\* the rendering of the served endpoint's template for the request
ServedText == RenderTemplateResponse(TemplateFiles, environ, ServedEndpoint, last.r)

JSONHeader == [k \in {ContentTypeKey} |-> <<ApplicationJSON>>]

\* C8: a request that matches an endpoint whose template renders to valid
\* JSON is answered with the endpoint's response_code, Content-Type
\* application/json and the rendered text as body; variable item1 = test123
\* in template {"item": "<item1>"} gives {"item": "test123"} with status 200.
C8_StubResponse ==
    IsStubRender =>
        /\ ServedText.err = NoError /\ IsJSON(ServedText.body) =>
              /\ last.res.w.Status = ServedEndpoint.ResponseCode
              /\ last.res.w.Header = JSONHeader
              /\ last.res.w.Body = ServedText.body
        /\ /\ ServedEndpoint.Template = "item"
           /\ ServedEndpoint.ResponseCode = 200
           /\ ServedEndpoint.Variables =
                 <<[Name |-> TagItem1, EnvVar |-> "", Value |-> ValueTest123,
                    Header |-> <<>>]>>
           => /\ last.res.w.Status = 200
              /\ last.res.w.Header = JSONHeader
              /\ last.res.w.Body = ItemBody(ValueTest123)

\* the example of the claim
C8_Witness ==
    /\ IsStubRender
    /\ ServedEndpoint.Template = "item"
    /\ ServedEndpoint.Variables =
          <<[Name |-> TagItem1, EnvVar |-> "", Value |-> ValueTest123, Header |-> <<>>]>>
    /\ last.res.w.Status = 200
    /\ last.res.w.Body = ItemBody(ValueTest123)

\* C9: when the template of the matched endpoint fails to render, or renders
\* to text that is not JSON, the client gets status 500 with the generic
\* message and nothing else: no rendered text, no error detail and no
\* Content-Type application/json.
C9_StubFailureIsGeneric500 ==
    IsStubRender /\ (ServedText.err # NoError \/ ~IsJSON(ServedText.body)) =>
        /\ last.res.w.Status = StatusInternalServerError
        /\ last.res.w.Body = UnknownErrorBody
        /\ last.res.w.Header = EmptyHeader

\* a configuration ValidateConfig accepted whose template renders to invalid
\* JSON with the header value of the request
C9_Witness ==
    /\ validated.done
    /\ validated.err = NoError
    /\ IsStubRender
    /\ ServedText.err = NoError
    /\ ~IsJSON(ServedText.body)
    /\ ServedText.body = ItemBody(ValueQuote)
    /\ last.res.w.Status = StatusInternalServerError

\* C10: a request that matches no endpoint gets 404 "Not found" when no
\* proxy origin is configured and is forwarded when one is; only such
\* requests are forwarded, and only with a proxy origin configured; a request
\* whose method no endpoint declares matches none, whatever its uri.
C10_Dispatch ==
    last.op = "ServeHTTP" =>
        LET none == (Matching(last.r) = {}) IN
        /\ none /\ config.ProxyPass = "" =>
              /\ last.res.w.Status = StatusNotFound
              /\ last.res.w.Body = NotFoundBody
              /\ ~last.res.forwarded
        /\ none /\ config.ProxyPass # "" /\ UrlParseOK(config.ProxyPass) =>
              last.res.forwarded
        /\ last.res.forwarded => none /\ config.ProxyPass # ""
        /\ ~none => last.res.index \in Matching(last.r)
        /\ (\A i \in DOMAIN config.Endpoints :
                ToUpper(config.Endpoints[i].Method) # last.r.Method)
              => last.res.index = 0

\* TRACE /a against the normal endpoint GET /a, no proxy: 404
C10_Witness ==
    /\ last.op = "ServeHTTP"
    /\ Len(config.Endpoints) = 1
    /\ config.Endpoints[1].Type = EndpointTypeNormal
    /\ config.Endpoints[1].Uri = last.r.RequestURI
    /\ config.Endpoints[1].Method = MethodGet
    /\ last.r.Method = MethodTrace
    /\ config.ProxyPass = ""
    /\ last.res.w.Status = StatusNotFound
    /\ last.res.w.Body = NotFoundBody

(***************************************************************************)
(* Claims about logging                                                    *)
(***************************************************************************)
\* the last call is a ServeHTTP that answered with the rendered template of
\* the matched endpoint (the rendering succeeded and is JSON)
IsStubResponse ==
    /\ IsStubRender
    /\ last.res.rendered.done
    /\ last.res.rendered.err = NoError
    /\ IsJSON(last.res.rendered.body)

\* the values to keep out of the log: of every variable of the endpoint the
\* value of its environment variable, when set, and its literal value
SecretValues(e) ==
    {v \in {LookupEnv(environ, e.Variables[i].EnvVar).value :
                i \in {j \in DOMAIN e.Variables :
                          /\ e.Variables[j].EnvVar # ""
                          /\ LookupEnv(environ, e.Variables[j].EnvVar).found}}
           \cup {e.Variables[i].Value : i \in DOMAIN e.Variables} :
        v # <<>>}

\* value v occurs in text at position p
OccursAt(text, v, p) ==
    /\ p + Len(v) - 1 <= Len(text)
    /\ SubSeq(text, p, p + Len(v) - 1) = v

\* the positions of text that an occurrence of one of the values covers
CoveredPositions(text, values) ==
    {q \in 1..Len(text) :
        \E v \in values : \E p \in 1..Len(text) :
            OccursAt(text, v, p) /\ p <= q /\ q < p + Len(v)}

\* logged is text with every occurrence of every value replaced by as many
\* mask characters, and nothing else changed
IsRedactionOf(logged, text, values) ==
    /\ Len(logged) = Len(text)
    /\ \A q \in 1..Len(text) :
          logged[q] = IF q \in CoveredPositions(text, values) THEN "*" ELSE text[q]

\* C11: with response-body logging enabled, the body logged for a stub
\* response is the rendered text with every occurrence of every variable's
\* environment or literal value replaced by mask characters of the same
\* length, also when the values overlap or contain one another, so that no
\* such value occurs in it; the client receives the rendered text unmasked.
C11_LoggedBodyRedacted ==
    IsStubResponse /\ config.Logging.ResponseContents =>
        LET text == last.res.rendered.body
            values == SecretValues(ServedEndpoint)
            logged == last.res.log.resBody
        IN /\ logged.has
           /\ IsRedactionOf(logged.body, text, values)
           /\ \A v \in values : \A p \in 1..Len(logged.body) :
                  ~OccursAt(logged.body, v, p)
           /\ last.res.w.Body = text

(***************************************************************************)
(* Claims about proxying                                                   *)
(***************************************************************************)
\* the last call is a ServeHTTP that forwarded its request and got the
\* origin's response with its body
IsProxySuccess ==
    /\ last.op = "ServeHTTP"
    /\ last.res.forwarded
    /\ last.upstream.kind = "Response"

\* C12: on a successful proxy call the client receives the origin's response
\* headers verbatim: for every header name exactly the origin's list of
\* values, all values of a multi-valued header, and no value (Content-Type
\* included) replaced or dropped.
C12_ProxyHeadersVerbatim ==
    IsProxySuccess => last.res.w.Header = last.upstream.Header

\* C13: on a successful proxy call the client receives the origin's status
\* code and body, whatever they are: a status outside 2xx is relayed, not
\* turned into an error, and a body that is not JSON is relayed unchanged,
\* never answered with the generic 500.
C13_ProxyStatusAndBodyRelayed ==
    IsProxySuccess =>
        /\ last.res.w.Status = last.upstream.StatusCode
        /\ last.res.w.Body = last.upstream.Body
        /\ last.res.log.errorLogged = NoError
        /\ ~last.res.log.notJSON.has

\* the origin answered 502 with a body that is not JSON, and the client got both
C13_Witness ==
    /\ IsProxySuccess
    /\ last.upstream.StatusCode = 502
    /\ ~IsJSON(last.upstream.Body)
    /\ last.res.w.Status = 502
    /\ last.res.w.Body = UpstreamText

(***************************************************************************)
(* Claims about ValidateConfig                                             *)
(***************************************************************************)
AllowedMethods == {MethodGet, MethodPost, MethodPut, MethodDelete, MethodPatch}

AllowedTypes == {EndpointTypeNormal, EndpointTypeRegex}

\* the endpoint has all that the claim requires of it
Acceptable(e) ==
    /\ e.Uri # <<>>
    /\ e.ResponseCode # 0
    /\ ToUpper(e.Method) \in AllowedMethods
    /\ ToLower(e.Type) \in AllowedTypes
    /\ e.Template # "" =>
          LET rendered == RenderTemplateResponse(TemplateFiles, environ, e, EmptyRequest)
          IN rendered.err = NoError /\ IsJSON(rendered.body)

Violating == {i \in DOMAIN config.Endpoints : ~Acceptable(config.Endpoints[i])}

ProxyPassParses == config.ProxyPass = "" \/ UrlParseOK(config.ProxyPass)

WithDefaultType(e) ==
    IF e.Type = <<>> THEN [e EXCEPT !.Type = EndpointTypeNormal] ELSE e

\* C15: an endpoint without type counts as normal: ValidateConfig accepts a
\* configuration whose endpoints are acceptable once the omitted types read
\* normal, and MatchEndpoint returns such an endpoint (or one before it) for
\* a request with its method and with its uri as RequestURI.
C15_OmittedTypeIsNormal ==
    /\ /\ validated.done
       /\ ProxyPassParses
       /\ \A i \in DOMAIN config.Endpoints :
             Acceptable(WithDefaultType(config.Endpoints[i]))
       => validated.err = NoError
    /\ last.op = "MatchEndpoint" =>
          \A i \in DOMAIN config.Endpoints :
              /\ config.Endpoints[i].Type = <<>>
              /\ ToUpper(config.Endpoints[i].Method) = last.r.Method
              /\ config.Endpoints[i].Uri = last.r.RequestURI
              => last.res.index \in 1..i

(***************************************************************************)
(* Claims about the access log                                             *)
(***************************************************************************)
\* C16: whatever way ServeHTTP ends (404, response without template, stub
\* response, rendering failure, rendered text that is not JSON, proxy
\* success, proxy error), it writes one access line, and the status in it is
\* the status written to the client.
C16_AccessLogStatusIsFinal ==
    last.op = "ServeHTTP" /\ ~last.res.panicked =>
        /\ last.res.log.access
        /\ last.res.log.status = last.res.w.Status

(***************************************************************************)
(* Claims about validation and matching together                           *)
(***************************************************************************)
\* the endpoint is of the kind its type names without regard to case, and
\* the request has its method in upper case and a RequestURI its uri matches
\* by the rule of that kind
MatchesByKind(e, r) ==
    /\ r.Method = ToUpper(e.Method)
    /\ \/ ToLower(e.Type) = EndpointTypeNormal /\ e.Uri = r.RequestURI
       \/ ToLower(e.Type) = EndpointTypeRegex /\ MatchString(e.Uri, r.RequestURI)

\* C17: every endpoint of a configuration ValidateConfig accepted is
\* returned by MatchEndpoint for the requests it matches by its kind that no
\* earlier endpoint matches, also when its type is written in another case
\* ("Regex"): no accepted endpoint is unreachable.
C17_AcceptedEndpointsAreReachable ==
    /\ validated.done
    /\ validated.err = NoError
    /\ last.op = "MatchEndpoint"
    => \A i \in DOMAIN config.Endpoints :
          /\ MatchesByKind(config.Endpoints[i], last.r)
          /\ \A j \in 1..(i - 1) : ~MatchesByKind(config.Endpoints[j], last.r)
          => last.res.index = i

====
